---- MODULE Spec2Model ----
(***************************************************************************)
(* Memory Manager of samaritan_memory (qdrant.py): add_memory with         *)
(* deduplication and supersession, find_similar_memory, update_memory,     *)
(* over a Vector Index whose single-point upsert, scroll and search are    *)
(* atomic.  Each worker runs one operation at a time; an operation is a    *)
(* sequence of steps, one per awaited backend call, and the steps of       *)
(* different workers interleave.  Every backend call may succeed, answer   *)
(* with a non-200 status, or raise.                                        *)
(*                                                                         *)
(* Scores are cosine similarities scaled by 100 and rounded down, so the   *)
(* default similarity_threshold 0.85 is 85.                                *)
(*                                                                         *)
(* Five specifications share the variables:                                *)
(*   Spec        the write path of the Memory Manager, two workers;        *)
(*   RerankSpec  _rerank as a function of its documents and of the answers *)
(*               of the Reranker Gateway;                                  *)
(*   ReadSpec    search_memory, get_recent_memories and the tools          *)
(*               memory_search, memory_recent and recall of call_tool,     *)
(*               against stores and a graph written earlier;               *)
(*   RecordSpec  the tool record: add_memory, then add_entity and add_fact.*)
(*   GraphSpec   the tools graph_add_entity and graph_add_fact, one Graph   *)
(*               Store transaction each.                                   *)
(***************************************************************************)
EXTENDS Integers, Sequences, FiniteSets, TLC

\* ---------------------------------------------------------------- bounds
\* operations started in one run
MaxOps == 3
\* backend calls that fail in one run
MaxFaults == 1
\* workers running operations concurrently
NumWorkers == 2
\* update_memory calls made through the API in one run
MaxUpdates == 1

Workers == 1..NumWorkers

\* ------------------------------------------------------------ data model
\* None for an id field (Memory.superseded_by / Memory.supersedes default)
NoId == 0
\* an id string a caller supplies that uuid4() never returned
GhostId == 0 - 1
\* None for a text argument of update_memory
NoneArg == "None"

Contents == {"a", "b", "c"}
MemoryTypes == {"insight", "task"}
Importances == {"low", "normal", "high", "critical"}
Statuses == {"active", "completed", "superseded", "archived"}
DefaultSource == "conversation"
DefaultTags == <<>>

\* order low < normal < high < critical of the importance levels
Rank(imp) ==
    CASE imp = "low" -> 0
      [] imp = "normal" -> 1
      [] imp = "high" -> 2
      [] imp = "critical" -> 3

\* the Embedding Gateway: deterministic text -> vector
_get_embedding(text) ==
    CASE text = "a" -> <<1, 0>>
      [] text = "b" -> <<3, 1>>
      [] text = "c" -> <<1, 1>>

Dot(u, v) == u[1] * v[1] + u[2] * v[2]

ISqrt(n) == CHOOSE r \in 0..100 : r * r <= n /\ n < (r + 1) * (r + 1)

\* cosine similarity of two vectors, times 100, rounded down
Cosine(u, v) == ISqrt((10000 * Dot(u, v) * Dot(u, v)) \div (Dot(u, u) * Dot(v, v)))

Vectors == {_get_embedding(c) : c \in Contents}

\* the scores the Vector Index reports, tabulated once
ScoreTable == [u \in Vectors, v \in Vectors |-> Cosine(u, v)]

Score(u, v) == ScoreTable[u, v]

\* default similarity_threshold of add_memory / find_similar_memory (0.85)
SimilarityThreshold == 85

\* the Memory dataclass as built by add_memory
Memory(id, content, memory_type, timestamp, importance, supersedes) ==
    [id |-> id, content |-> content, memory_type |-> memory_type,
     timestamp |-> timestamp, importance |-> importance, status |-> "active",
     source |-> DefaultSource, tags |-> DefaultTags,
     superseded_by |-> NoId, supersedes |-> supersedes]

NoPayload == Memory(NoId, NoneArg, NoneArg, 0, NoneArg, NoId)
NoVector == <<0, 0>>
NoPoint == [vector |-> NoVector, payload |-> NoPayload]

\* ----------------------------------------------------------------- state
VARIABLES
    store,      \* the collection: point id -> [vector, payload]
    proc,       \* per worker: position and locals of its running operation
    nextId,     \* ids handed out so far by uuid4()
    clock,      \* the wall clock read by datetime.now()
    ops,        \* operations started
    updates,    \* update_memory calls made through the API
    bypassed,   \* some add_memory call skipped the dedup branch (line 199)
    faults,     \* backend calls that failed
    graph,      \* the Graph Store: Entity nodes and Fact nodes
    call,       \* the tool call that call_tool is serving
    branch,     \* the tasks of the call: the memory search and the graph searches
    rr          \* a call of _rerank: its documents, the gateway's answers, its result

vars == <<store, proc, nextId, clock, ops, updates, bypassed, faults,
          graph, call, branch, rr>>

\* what the Memory Manager's write path never touches
toolVars == <<graph, call, branch, rr>>

\* what only the Memory Manager's write path touches
writeVars == <<proc, nextId, clock, ops, updates, bypassed>>

Ids == DOMAIN store

IdleProc ==
    [pc |-> "idle", op |-> "none",
     content |-> NoneArg, memory_type |-> NoneArg, importance |-> NoneArg,
     supersedes |-> NoId, deduplicate |-> FALSE,
     existing_id |-> NoId, memory_id |-> NoId, timestamp |-> 0,
     caller |-> "none",
     u_id |-> NoId, u_content |-> NoneArg, u_status |-> NoneArg,
     u_importance |-> NoneArg, u_superseded_by |-> NoId,
     payload |-> NoPayload, vector |-> NoVector,
     outcome |-> "none", ret_id |-> NoId, ret_ok |-> FALSE,
     similar |-> {}, failed |-> FALSE]

\* a document without a "score" key, and a candidate not yet reranked
NoScore == 0 - 1

\* the Graph Store before anything is written to it
EmptyGraph == [entities |-> {}, facts |-> {}]

\* the three tasks recall hands to asyncio.gather (server.py 295-300)
Branches == {"memories", "entities", "facts"}

\* a task that was not started
IdleBranch ==
    [pc |-> "off", outcome |-> "none", value |-> <<>>, candidates |-> <<>>,
     ran_after_failure |-> FALSE]

\* call_tool serving nothing
IdleCall ==
    [tool |-> "none", pc |-> "idle",
     query |-> NoneArg, content |-> NoneArg, limit |-> 0, memory_type |-> NoneArg,
     importance |-> NoneArg, status |-> NoneArg, min_score |-> 0,
     rerank |-> FALSE,
     entities |-> <<>>, facts |-> <<>>,
     results |-> [memory_id |-> NoId, entities |-> <<>>, facts |-> <<>>],
     response |-> [kind |-> "none", count |-> 0, memory_id |-> NoId,
                   entity_id |-> NoId, fact_id |-> NoId,
                   memories |-> <<>>, entities |-> <<>>, facts |-> <<>>],
     failed |-> FALSE]

\* before the Reranker Gateway has answered anything
NoAnswer == [kind |-> "none", top_logprobs |-> <<>>]

\* no call of _rerank.  `unanswered` holds the positions of the documents for
\* which the gateway gave no 200 answer with logprobs.
IdleRerank ==
    [pc |-> "idle", documents |-> <<>>, scored_docs |-> <<>>,
     answer |-> NoAnswer, unanswered |-> {}, result |-> <<>>]

Init ==
    /\ store = [i \in {} |-> NoPoint]
    /\ proc = [p \in Workers |-> IdleProc]
    /\ nextId = 1
    /\ clock = 1
    /\ ops = 0
    /\ updates = 0
    /\ bypassed = FALSE
    /\ faults = 0
    /\ graph = EmptyGraph
    /\ call = IdleCall
    /\ branch = [b \in Branches |-> IdleBranch]
    /\ rr = IdleRerank

\* results of a backend call: answered 200, answered another status, raised
Outcomes == {"ok", "status", "exc"}

Fault(o) ==
    IF o = "ok" THEN faults' = faults
    ELSE faults < MaxFaults /\ faults' = faults + 1

\* datetime.now(): time has passed since the previous read (each read follows
\* an awaited backend call), so every read returns a later instant
Now(t) == t = clock + 1 /\ clock' = t

Free(p) == proc[p].pc \in {"idle", "done"}

\* workers are interchangeable: a new operation runs on the first free one
FirstFree(p) == Free(p) /\ \A q \in Workers : q < p => ~Free(q)

\* what a finished operation leaves behind: how it ended and what it returned
Finished(l, outcome, ret_id, ret_ok, failed) ==
    [IdleProc EXCEPT !.pc = "done", !.op = l.op, !.outcome = outcome,
                     !.ret_id = ret_id, !.ret_ok = ret_ok, !.failed = failed]

\* an exception leaves the operation: the caller sees it
Raised(l) == Finished(l, "raised", NoId, FALSE, TRUE)

\* PUT /points: the upsert replaces vector and payload of one point at once
Upsert(id, vector, payload) ==
    [i \in Ids \cup {id} |->
        IF i = id THEN [vector |-> vector, payload |-> payload] ELSE store[i]]

\* ------------------------------------------------------ find_similar_memory
\* the filter of find_similar_memory: status active and the memory_type
Candidates(content, memory_type, threshold) ==
    {i \in Ids :
        /\ store[i].payload.status = "active"
        /\ store[i].payload.memory_type = memory_type
        /\ Score(_get_embedding(content), store[i].vector) >= threshold}

\* limit 1: the nearest neighbours, any one of them when scores tie
Nearest(content, memory_type, threshold) ==
    LET c == Candidates(content, memory_type, threshold)
        e == _get_embedding(content)
    IN {i \in c : \A j \in c : Score(e, store[i].vector) >= Score(e, store[j].vector)}

\* ------------------------------------------------------------- add_memory
\* lines 210-223: a fresh id and the timestamp of the new record
NewRecord(l, t) ==
    [l EXCEPT !.pc = "am_put", !.memory_id = nextId, !.timestamp = t]

\* line 206: the importance handed to update_memory by a merge
MergeImportance(importance, existing_importance) ==
    IF importance # "normal" THEN importance ELSE existing_importance

\* lines 203-207: the merge calls update_memory(existing_id, content, importance)
CallMerge(l, existing) ==
    [l EXCEPT !.pc = "um_load", !.caller = "merge",
              !.existing_id = existing,
              !.u_id = existing, !.u_content = l.content,
              !.u_importance =
                  MergeImportance(l.importance, store[existing].payload.importance),
              !.u_status = NoneArg, !.u_superseded_by = NoId]

\* line 240: update_memory(supersedes, status="superseded", superseded_by=memory_id)
CallSupersede(l) ==
    [l EXCEPT !.pc = "um_load", !.caller = "supersede",
              !.u_id = l.supersedes, !.u_content = NoneArg,
              !.u_importance = NoneArg,
              !.u_status = "superseded", !.u_superseded_by = l.memory_id]

\* add_memory is called with the arguments w.  After _ensure_collection the
\* dedup branch embeds the content and searches the nearest active neighbour
\* (find_similar_memory); a hit starts the merge, a miss or the other branch
\* takes a fresh id and the timestamp of a new record.
StartWrite(p, w, o) ==
    LET l == [IdleProc EXCEPT !.op = "write", !.content = w.content,
                 !.memory_type = w.memory_type, !.importance = w.importance,
                 !.supersedes = w.supersedes, !.deduplicate = w.deduplicate,
                 !.similar = IF w.deduplicate /\ w.supersedes = NoId
                             THEN Candidates(w.content, w.memory_type,
                                             SimilarityThreshold)
                             ELSE {}]
        hits == IF w.deduplicate /\ w.supersedes = NoId /\ o = "ok"
                THEN Nearest(w.content, w.memory_type, SimilarityThreshold)
                ELSE {}
    IN
    /\ FirstFree(p)
    /\ ops < MaxOps
    /\ ops' = ops + 1
    /\ Fault(o)
    \* lines 172-173: only the search of the dedup branch reads a status
    /\ o = "status" => w.deduplicate /\ w.supersedes = NoId
    /\ bypassed' = (bypassed \/ ~(w.deduplicate /\ w.supersedes = NoId))
    /\ UNCHANGED <<store, updates, toolVars>>
    /\ IF o = "exc"
       THEN /\ proc' = [proc EXCEPT ![p] = Raised(l)]
            /\ UNCHANGED <<nextId, clock>>
       ELSE IF hits # {}
       THEN \E e \in hits :
            /\ proc' = [proc EXCEPT ![p] = CallMerge(l, e)]
            /\ UNCHANGED <<nextId, clock>>
       ELSE \E t \in {clock, clock + 1} :
            /\ Now(t)
            /\ proc' = [proc EXCEPT ![p] =
                          NewRecord([l EXCEPT !.failed = (o = "status")], t)]
            /\ nextId' = nextId + 1

\* lines 225-242: embed, upsert the new record, then mark the superseded target
AddPut(p, o) ==
    LET l == proc[p]
        after == IF l.supersedes # NoId
                 THEN CallSupersede(l)
                 ELSE Finished(l, "returned", l.memory_id, FALSE, l.failed)
    IN
    /\ l.pc = "am_put"
    /\ Fault(o)
    /\ UNCHANGED <<nextId, clock, ops, updates, bypassed, toolVars>>
    /\ CASE o = "exc" ->
             /\ proc' = [proc EXCEPT ![p] = Raised(l)]
             /\ UNCHANGED store
         [] o = "status" ->
             \* the answer of client.put is never inspected
             /\ proc' = [proc EXCEPT ![p] =
                           IF l.supersedes # NoId
                           THEN CallSupersede([l EXCEPT !.failed = TRUE])
                           ELSE Finished(l, "returned", l.memory_id, FALSE, TRUE)]
             /\ UNCHANGED store
         [] o = "ok" ->
             /\ store' = Upsert(l.memory_id, _get_embedding(l.content),
                                Memory(l.memory_id, l.content, l.memory_type,
                                       l.timestamp, l.importance, l.supersedes))
             /\ proc' = [proc EXCEPT ![p] = after]

\* ---------------------------------------------------------- update_memory
\* update_memory returns `ok` to whoever called it
Return(l, ok) ==
    CASE l.caller = "api" ->
             Finished(l, "returned", NoId, ok, l.failed)
      [] l.caller = "merge" ->
             \* line 208: the result of update_memory is dropped
             Finished(l, "returned", l.existing_id, FALSE, l.failed)
      [] l.caller = "supersede" ->
             \* line 242: the result of update_memory is dropped
             Finished(l, "returned", l.memory_id, FALSE, l.failed)

\* the slip of replacing the content and keeping the loaded vector
ApplyContentKeepsVector(point, content) ==
    [vector |-> point.vector,
     payload |-> [point.payload EXCEPT !.content = content]]

\* lines 275-277: new content replaces the content and the vector together
ApplyContent(point, content) ==
    [vector |-> _get_embedding(content),
     payload |-> [point.payload EXCEPT !.content = content]]

\* lines 278-283: the optional fields that were passed
ApplyFields(payload, status, importance, superseded_by) ==
    [payload EXCEPT
        !.status = IF status # NoneArg THEN status ELSE @,
        !.importance = IF importance # NoneArg THEN importance ELSE @,
        !.superseded_by = IF superseded_by # NoId THEN superseded_by ELSE @]

\* line 285: the timestamp is refreshed
Stamp(payload, t) == [payload EXCEPT !.timestamp = t]

\* the slip of leaving out the check of lines 268-269: a missing point is
\* treated as an empty one and the update goes on to its upsert
LoadSkipsNotFound(l, o, t) ==
    LET point == IF l.u_id \in Ids THEN store[l.u_id] ELSE NoPoint IN
    CASE o = "exc" -> Raised(l)
      [] o = "status" -> Return([l EXCEPT !.failed = TRUE], FALSE)
      [] o = "ok" ->
             IF l.u_content # NoneArg
             THEN [l EXCEPT !.pc = "um_embed", !.payload = point.payload,
                            !.vector = point.vector]
             ELSE [l EXCEPT !.pc = "um_put",
                            !.payload =
                                Stamp(ApplyFields(point.payload, l.u_status,
                                          l.u_importance, l.u_superseded_by), t),
                            !.vector = point.vector]

\* lines 253-273: scroll for the point; without new content the fields are
\* applied and the timestamp taken before the next await
Load(l, o, t) ==
    CASE o = "exc" -> Raised(l)
      [] o = "status" ->
             \* lines 264-265
             Return([l EXCEPT !.failed = TRUE], FALSE)
      [] o = "ok" ->
             IF l.u_id \notin Ids
             THEN \* lines 268-269
                  Return(l, FALSE)
             ELSE IF l.u_content # NoneArg
             THEN [l EXCEPT !.pc = "um_embed",
                            !.payload = store[l.u_id].payload,
                            !.vector = store[l.u_id].vector]
             ELSE [l EXCEPT !.pc = "um_put",
                            !.payload =
                                Stamp(ApplyFields(store[l.u_id].payload,
                                          l.u_status, l.u_importance,
                                          l.u_superseded_by), t),
                            !.vector = store[l.u_id].vector]

\* the scroll reads the clock when it goes on to the upsert without an embed
LoadStamps(l, o) == o = "ok" /\ l.u_id \in Ids /\ l.u_content = NoneArg

\* update_memory is called through the API with the arguments u, and scrolls
StartUpdate(p, u, o) ==
    LET l == [IdleProc EXCEPT !.op = "update", !.pc = "um_load",
                 !.caller = "api", !.u_id = u.memory_id, !.u_content = u.content,
                 !.u_status = u.status, !.u_importance = u.importance,
                 !.u_superseded_by = u.superseded_by]
    IN
    /\ FirstFree(p)
    /\ ops < MaxOps
    /\ ops' = ops + 1
    /\ updates < MaxUpdates
    /\ updates' = updates + 1
    /\ Fault(o)
    /\ UNCHANGED <<store, nextId, bypassed, toolVars>>
    /\ \E t \in {clock, clock + 1} :
        /\ IF LoadStamps(l, o) THEN Now(t) ELSE t = clock /\ UNCHANGED clock
        /\ proc' = [proc EXCEPT ![p] = Load(l, o, t)]

\* the scroll of an update_memory that add_memory called
UpdateLoad(p, o) ==
    LET l == proc[p] IN
    /\ l.pc = "um_load"
    /\ Fault(o)
    /\ UNCHANGED <<store, nextId, ops, updates, bypassed, toolVars>>
    /\ \E t \in {clock, clock + 1} :
        /\ IF LoadStamps(l, o) THEN Now(t) ELSE t = clock /\ UNCHANGED clock
        /\ proc' = [proc EXCEPT ![p] = Load(l, o, t)]

\* lines 275-285 with new content: embed it, apply the fields, take the timestamp
UpdateEmbed(p, o) ==
    LET l == proc[p]
        pt == ApplyContent([vector |-> l.vector, payload |-> l.payload], l.u_content)
    IN
    /\ l.pc = "um_embed"
    /\ o # "status"
    /\ Fault(o)
    /\ UNCHANGED <<store, nextId, ops, updates, bypassed, toolVars>>
    /\ IF o = "exc"
       THEN /\ proc' = [proc EXCEPT ![p] = Raised(l)]
            /\ UNCHANGED clock
       ELSE \E t \in {clock, clock + 1} :
            /\ Now(t)
            /\ proc' = [proc EXCEPT ![p] =
                          [l EXCEPT !.pc = "um_put",
                                    !.payload =
                                        Stamp(ApplyFields(pt.payload, l.u_status,
                                                  l.u_importance, l.u_superseded_by), t),
                                    !.vector = pt.vector]]

\* lines 287-298: upsert the point and return True
UpdatePut(p, o) ==
    LET l == proc[p] IN
    /\ l.pc = "um_put"
    /\ Fault(o)
    /\ UNCHANGED <<nextId, clock, ops, updates, bypassed, toolVars>>
    /\ CASE o = "exc" ->
             /\ proc' = [proc EXCEPT ![p] = Raised(l)]
             /\ UNCHANGED store
         [] o = "status" ->
             \* the answer of client.put is never inspected
             /\ proc' = [proc EXCEPT ![p] = Return([l EXCEPT !.failed = TRUE], TRUE)]
             /\ UNCHANGED store
         [] o = "ok" ->
             /\ store' = Upsert(l.u_id, l.vector, l.payload)
             /\ proc' = [proc EXCEPT ![p] = Return(l, TRUE)]

\* ------------------------------------------------------------ specification
\* ids a caller can name: the stored ones and one that was never created
KnownIds == Ids \cup {GhostId}

NumTrue(flags) == Cardinality({k \in DOMAIN flags : flags[k]})

\* the calls of add_memory: every content written with the defaults, with or
\* without a supersedes target, and the content "a" written with another
\* memory_type, another importance, or deduplicate off
WriteCalls ==
    {[content |-> c, memory_type |-> "insight", importance |-> "normal",
      supersedes |-> s, deduplicate |-> TRUE] :
        c \in Contents, s \in KnownIds \cup {NoId}}
    \cup
    {w \in [content : {"a"}, memory_type : MemoryTypes, importance : Importances,
            supersedes : {NoId}, deduplicate : BOOLEAN] :
        NumTrue(<<w.memory_type # "insight", w.importance # "normal",
                  ~w.deduplicate>>) <= 1}

\* the calls of update_memory through the API: one field passed, or all four;
\* a superseded_by that is passed names the record itself
UpdateCalls ==
    {u \in [memory_id : KnownIds, content : {NoneArg, "b"},
            status : {NoneArg, "active", "superseded", "archived"},
            importance : {NoneArg, "low"}, superseded_by : KnownIds \cup {NoId}] :
        /\ u.superseded_by \in {NoId, u.memory_id}
        /\ NumTrue(<<u.content # NoneArg, u.status # NoneArg,
                     u.importance # NoneArg, u.superseded_by # NoId>>) \in {1, 4}}

Next ==
    \/ \E p \in Workers : FirstFree(p) /\ ops < MaxOps /\
          \E w \in WriteCalls, o \in Outcomes : StartWrite(p, w, o)
    \/ \E p \in Workers, o \in Outcomes : AddPut(p, o)
    \/ \E p \in Workers : FirstFree(p) /\ ops < MaxOps /\ updates < MaxUpdates /\
          \E u \in UpdateCalls, o \in Outcomes : StartUpdate(p, u, o)
    \/ \E p \in Workers, o \in Outcomes : UpdateLoad(p, o)
    \/ \E p \in Workers, o \in Outcomes : UpdateEmbed(p, o)
    \/ \E p \in Workers, o \in Outcomes : UpdatePut(p, o)

Spec == Init /\ [][Next]_vars

\* ------------------------------------------------------------------ _rerank
\* Fused scores are probabilities times 100, rounded down, on the scale of
\* the similarity scores.  Logprobs are in units of ln 2.
Logprobs == {0 - 1, 0}

\* yes_logprob / no_logprob = None (lines 94-95)
NoLogprob == 1

\* math.exp of a logprob (lines 104-105), times 2
Exp(lp) == IF lp = 0 THEN 2 ELSE 1

\* tokens the reranker model reports in top_logprobs
Tokens == {"Yes", "yes.", " no", "maybe"}

\* token.lower().strip() (line 97)
Normalise(token) ==
    CASE token = "Yes" -> "yes"
      [] token = "yes." -> "yes."
      [] token = " no" -> "no"
      [] token = "maybe" -> "maybe"

\* the token lists of lines 98 and 100
YesTokens == {"yes", "yes,", "yes."}
NoTokens == {"no", "no,", "no."}

\* top_logprobs: the items of a dict, so no token twice
TopLogprobs ==
    {<<>>}
    \cup {<<it>> : it \in Tokens \X Logprobs}
    \cup {its \in (Tokens \X Logprobs) \X (Tokens \X Logprobs) : its[1][1] # its[2][1]}

\* what the Reranker Gateway does with one request: a 200 answer carrying
\* top_logprobs, a 200 answer without them, another status, or no answer
GatewayAnswers ==
    {[kind |-> "ok", top_logprobs |-> t] : t \in TopLogprobs}
    \cup {[kind |-> k, top_logprobs |-> <<>>] : k \in {"malformed", "status", "exc"}}

\* lines 94-101: the loop keeps the logprob of the last item of a kind
RECURSIVE LastLogprob(_, _)
LastLogprob(items, kinds) ==
    IF items = <<>> THEN NoLogprob
    ELSE IF Normalise(items[Len(items)][1]) \in kinds THEN items[Len(items)][2]
    ELSE LastLogprob(SubSeq(items, 1, Len(items) - 1), kinds)

\* the slip of falling back to the distance, 1 - score
FallbackScoreIsDistance(doc) == IF doc.score # NoScore THEN 100 - doc.score ELSE 50

\* doc.get("score", 0.5) (lines 88, 112, 117)
FallbackScore(doc) == IF doc.score # NoScore THEN doc.score ELSE 50

\* the slip of giving 0.9 to the negative answer and 0.1 to the affirmative
FusedScoreSwapsFixed(doc, answer) ==
    LET yes_logprob == LastLogprob(answer.top_logprobs, YesTokens)
        no_logprob == LastLogprob(answer.top_logprobs, NoTokens)
    IN IF answer.kind # "ok" THEN FallbackScore(doc)
       ELSE IF yes_logprob # NoLogprob /\ no_logprob # NoLogprob
       THEN (Exp(yes_logprob) * 100) \div (Exp(yes_logprob) + Exp(no_logprob))
       ELSE IF yes_logprob # NoLogprob THEN 10
       ELSE IF no_logprob # NoLogprob THEN 90
       ELSE FallbackScore(doc)

\* lines 75-117: the score one document gets from the gateway's answer
FusedScore(doc, answer) ==
    LET yes_logprob == LastLogprob(answer.top_logprobs, YesTokens)
        no_logprob == LastLogprob(answer.top_logprobs, NoTokens)
    IN IF answer.kind # "ok" THEN FallbackScore(doc)
       ELSE IF yes_logprob # NoLogprob /\ no_logprob # NoLogprob
       THEN (Exp(yes_logprob) * 100) \div (Exp(yes_logprob) + Exp(no_logprob))
       ELSE IF yes_logprob # NoLogprob THEN 90
       ELSE IF no_logprob # NoLogprob THEN 10
       ELSE FallbackScore(doc)

\* the slip of an unstable sort: an item goes before the items already
\* placed that have its score
InsertDescBeforeEquals(sorted, item) ==
    LET k == Cardinality({j \in 1..Len(sorted) : sorted[j][1] > item[1]})
    IN SubSeq(sorted, 1, k) \o <<item>> \o SubSeq(sorted, k + 1, Len(sorted))

\* list.sort(key, reverse=True) is stable: an item goes behind every item
\* already placed whose score is not lower
InsertDesc(sorted, item) ==
    LET k == Cardinality({j \in 1..Len(sorted) : sorted[j][1] >= item[1]})
    IN SubSeq(sorted, 1, k) \o <<item>> \o SubSeq(sorted, k + 1, Len(sorted))

RECURSIVE SortDesc(_)
SortDesc(scored_docs) ==
    IF scored_docs = <<>> THEN <<>>
    ELSE InsertDesc(SortDesc(SubSeq(scored_docs, 1, Len(scored_docs) - 1)),
                    scored_docs[Len(scored_docs)])

\* lines 119-127: sort, then copy each document with its rerank_score
Reranked(scored_docs) ==
    LET sorted == SortDesc(scored_docs)
    IN [k \in 1..Len(sorted) |->
           [sorted[k][2] EXCEPT !.rerank_score = sorted[k][1]]]

\* _rerank(query, documents) is called (lines 62-68)
CallRerank(documents) ==
    IF documents = <<>>
    THEN [pc |-> "returned", documents |-> documents, scored_docs |-> <<>>,
          answer |-> NoAnswer, unanswered |-> {}, result |-> documents]
    ELSE [pc |-> "loop", documents |-> documents, scored_docs |-> <<>>,
          answer |-> NoAnswer, unanswered |-> {}, result |-> <<>>]

\* lines 71-117: one turn of the loop, the gateway answering `answer`
RerankScore(answer) ==
    LET doc == rr.documents[Len(rr.scored_docs) + 1] IN
    /\ rr.pc = "loop"
    /\ rr' = [rr EXCEPT
                !.scored_docs = Append(@, <<FusedScore(doc, answer), doc>>),
                !.answer = answer,
                !.unanswered = IF answer.kind = "ok" THEN @
                               ELSE @ \cup {Len(rr.scored_docs) + 1},
                !.pc = IF Len(rr.scored_docs) + 1 = Len(rr.documents)
                       THEN "sort" ELSE "loop"]
    /\ UNCHANGED <<store, writeVars, faults, graph, call, branch>>

\* lines 119-127: after the loop
RerankReturn ==
    /\ rr.pc = "sort"
    /\ rr' = [rr EXCEPT !.pc = "returned", !.result = Reranked(rr.scored_docs)]
    /\ UNCHANGED <<store, writeVars, faults, graph, call, branch>>

\* a document as search_memory builds it (line 340): the similarity score next
\* to the payload; rerank_score is absent until _rerank adds it
Candidate(score, payload) ==
    [score |-> score, rerank_score |-> NoScore, payload |-> payload]

\* documents in one call of _rerank
MaxDocs == 3

\* the documents _rerank is called with: up to MaxDocs, told apart by their
\* ids, each with a similarity score or without one
RerankDocuments ==
    UNION {{[k \in 1..n |->
                Candidate(f[k], Memory(k, "a", "insight", k, "normal", NoId))] :
              f \in [1..n -> {NoScore, 40, 70}]} : n \in 0..MaxDocs}

RerankInit ==
    /\ store = [i \in {} |-> NoPoint]
    /\ proc = [p \in Workers |-> IdleProc]
    /\ nextId = 1
    /\ clock = 1
    /\ ops = 0
    /\ updates = 0
    /\ bypassed = FALSE
    /\ faults = 0
    /\ graph = EmptyGraph
    /\ call = IdleCall
    /\ branch = [b \in Branches |-> IdleBranch]
    /\ \E documents \in RerankDocuments : rr = CallRerank(documents)

RerankNext ==
    \/ \E answer \in GatewayAnswers : RerankScore(answer)
    \/ RerankReturn

RerankSpec == RerankInit /\ [][RerankNext]_vars

\* ----------------------------------------------------------- search_memory
\* results a caller asks for (the tool's default is 5)
MaxLimit == 2

Limits == 1..MaxLimit

Min(a, b) == IF a <= b THEN a ELSE b

\* the slip of returning every candidate that was fetched
TakeAll(seq, n) == seq

\* candidates[:limit]
Take(seq, n) == SubSeq(seq, 1, Min(n, Len(seq)))

\* default min_score of search_memory (0.5)
DefaultMinScore == 50

\* lines 315-323: one condition for every filter argument that is truthy
SearchFilter(status, memory_type, importance) ==
    LET given == [key \in {"status", "memory_type", "importance"} |->
                    CASE key = "status" -> status
                      [] key = "memory_type" -> memory_type
                      [] key = "importance" -> importance]
    IN [key \in {k \in DOMAIN given : given[k] # NoneArg} |-> given[key]]

\* the slip of sending the conditions as "should": one match is enough
MatchesAny(payload, must) ==
    must = <<>> \/ \E key \in DOMAIN must : payload[key] = must[key]

\* the Vector Index's filter {"must": [...]}: every condition matches
Matches(payload, must) == \A key \in DOMAIN must : payload[key] = must[key]

\* the points the index may report: matching the filter, at or above the
\* score_threshold
Hits(vector, must, min_score) ==
    {i \in Ids : /\ Matches(store[i].payload, must)
                 /\ Score(vector, store[i].vector) >= min_score}

\* POST /points/search (lines 327-340): the best `limit` hits, best first, in
\* any order among equal scores, each as score plus payload
IndexSearch(vector, must, limit, min_score) ==
    LET hits == Hits(vector, must, min_score)
        n == Min(limit, Cardinality(hits))
        s(i) == Score(vector, store[i].vector)
        orders == {seq \in [1..n -> hits] :
                     /\ \A j, k \in 1..n : j < k => seq[j] # seq[k] /\ s(seq[j]) >= s(seq[k])
                     /\ \A i \in hits :
                           (\A j \in 1..n : seq[j] # i) => \A j \in 1..n : s(seq[j]) >= s(i)}
    IN {[k \in 1..n |-> Candidate(s(seq[k]), store[seq[k]].payload)] : seq \in orders}

\* POST /points/scroll ordered by timestamp, newest first (lines 365-377)
IndexScroll(must, limit) ==
    LET hits == {i \in Ids : Matches(store[i].payload, must)}
        n == Min(limit, Cardinality(hits))
        ts(i) == store[i].payload.timestamp
        orders == {seq \in [1..n -> hits] :
                     /\ \A j, k \in 1..n : j < k => seq[j] # seq[k] /\ ts(seq[j]) >= ts(seq[k])
                     /\ \A i \in hits :
                           (\A j \in 1..n : seq[j] # i) => \A j \in 1..n : ts(seq[j]) >= ts(i)}
    IN {[k \in 1..n |-> store[seq[k]].payload] : seq \in orders}

\* a task ends: it returned `value`, or it raised
Settled(b, outcome, value) ==
    [branch[b] EXCEPT
        !.pc = "settled", !.outcome = outcome, !.value = value,
        !.ran_after_failure =
            \E c \in Branches \ {b} : branch[c].outcome = "exception"]

\* an exception leaves the task
Fails(b) ==
    /\ branch' = [branch EXCEPT ![b] = Settled(b, "exception", <<>>)]
    /\ call' = [call EXCEPT !.failed = TRUE]

\* line 311 (and 356): _ensure_collection; a non-200 answer makes it create
\* the collection and go on
SearchEnsure(o) ==
    /\ branch["memories"].pc = "ensure"
    /\ UNCHANGED <<store, writeVars, faults, graph, rr>>
    /\ IF o = "exc" THEN Fails("memories")
       ELSE /\ branch' = [branch EXCEPT !["memories"].pc =
                            IF call.tool = "memory_recent" THEN "scroll" ELSE "embed"]
            /\ UNCHANGED call

\* line 313: _get_embedding raises on a non-200 answer (raise_for_status)
SearchEmbed(o) ==
    /\ branch["memories"].pc = "embed"
    /\ UNCHANGED <<store, writeVars, faults, graph, rr>>
    /\ IF o # "ok" THEN Fails("memories")
       ELSE /\ branch' = [branch EXCEPT !["memories"].pc = "search"]
            /\ UNCHANGED call

\* lines 315-346: the filter, the search, and the call of _rerank
SearchIndex(o) ==
    LET fetch_limit == IF call.rerank THEN call.limit * 3 ELSE call.limit
        must == SearchFilter(call.status, call.memory_type, call.importance)
    IN
    /\ branch["memories"].pc = "search"
    /\ UNCHANGED <<store, writeVars, faults, graph>>
    /\ IF o # "ok" THEN Fails("memories") /\ UNCHANGED rr
       ELSE \E candidates \in IndexSearch(_get_embedding(call.query), must,
                                          fetch_limit, call.min_score) :
            /\ UNCHANGED call
            /\ IF call.rerank /\ candidates # <<>>
               THEN /\ branch' = [branch EXCEPT !["memories"].pc = "rerank",
                                                !["memories"].candidates = candidates]
                    /\ rr' = CallRerank(candidates)
               ELSE /\ branch' = [branch EXCEPT !["memories"] =
                          [Settled("memories", "value", Take(candidates, call.limit))
                              EXCEPT !.candidates = candidates]]
                    /\ UNCHANGED rr

\* the slip of letting a gateway error leave _rerank and search_memory
SearchReturnRaisesGatewayError ==
    /\ branch["memories"].pc = "rerank"
    /\ rr.pc = "returned"
    /\ IF rr.unanswered # {}
       THEN Fails("memories")
       ELSE /\ branch' = [branch EXCEPT !["memories"] =
                            Settled("memories", "value", Take(rr.result, call.limit))]
            /\ UNCHANGED call
    /\ UNCHANGED <<store, writeVars, faults, graph, rr>>

\* line 348, after _rerank has returned
SearchReturn ==
    /\ branch["memories"].pc = "rerank"
    /\ rr.pc = "returned"
    /\ branch' = [branch EXCEPT !["memories"] =
                    Settled("memories", "value", Take(rr.result, call.limit))]
    /\ UNCHANGED <<store, writeVars, faults, graph, call, rr>>

\* get_recent_memories, lines 358-377
RecentScroll(o) ==
    LET must == SearchFilter(NoneArg, call.memory_type, NoneArg) IN
    /\ branch["memories"].pc = "scroll"
    /\ UNCHANGED <<store, writeVars, faults, graph, rr>>
    /\ IF o # "ok" THEN Fails("memories")
       ELSE \E results \in IndexScroll(must, call.limit) :
            /\ branch' = [branch EXCEPT !["memories"] =
                            Settled("memories", "value", results)]
            /\ UNCHANGED call

\* -------------------------------------------------------------- graph.py
\* Names and the other texts of the Graph Store are sequences of characters.
\* toLower of one character
ToLower(ch) == IF ch = "A" THEN "a" ELSE IF ch = "B" THEN "b" ELSE ch

Lower(text) == [k \in 1..Len(text) |-> ToLower(text[k])]

\* Cypher's CONTAINS: `sub` is a substring of `text`
Contains(text, sub) ==
    \E k \in 0..(Len(text) - Len(sub)) : SubSeq(text, k + 1, k + Len(sub)) = sub

\* the query of a call, which is one character long, as a text
Text(query) == <<query>>

\* an Entity node; `description` stands for the properties a caller may add
EntityNode(uuid, name, entity_type, created_at, updated_at) ==
    [uuid |-> uuid, name |-> name, entity_type |-> entity_type,
     created_at |-> created_at, updated_at |-> updated_at,
     description |-> NoneArg]

\* a Fact node and the Entity node its HAS_FACT edge comes from: `owner` is
\* the entity_type of that node, whose name is the subject
FactNode(uuid, subject, predicate, object, created_at, owner) ==
    [uuid |-> uuid, subject |-> subject, predicate |-> predicate,
     object |-> object, created_at |-> created_at, owner |-> owner]

\* a graph written earlier: two entities and a fact about each
SampleGraph ==
    [entities |-> {EntityNode(1, <<"A">>, "Person", 1, 0),
                   EntityNode(2, <<"a", "b">>, "Unknown", 2, 0)},
     facts |-> {FactNode(3, <<"A">>, <<"h">>, <<"c">>, 3, "Person"),
                FactNode(4, <<"a", "b">>, <<"h">>, <<"B">>, 4, "Unknown")}]

\* the sequences of `n` distinct members of `nodes`
Listings(nodes, n) ==
    {seq \in [1..n -> nodes] : \A j, k \in 1..n : j < k => seq[j] # seq[k]}

\* search_entities (lines 130-143): up to `limit` matching entities
search_entities(query, limit) ==
    LET found == {e \in graph.entities :
                     Contains(Lower(e.name), Lower(Text(query)))}
    IN Listings(found, Min(limit, Cardinality(found)))

\* search_facts (lines 145-159): the newest `limit` matching facts, newest first
search_facts(query, limit) ==
    LET q == Lower(Text(query))
        found == {f \in graph.facts :
                     \/ Contains(Lower(f.subject), q)
                     \/ Contains(Lower(f.predicate), q)
                     \/ Contains(Lower(f.object), q)}
        n == Min(limit, Cardinality(found))
    IN {seq \in Listings(found, n) :
           /\ \A j, k \in 1..n : j < k => seq[j].created_at >= seq[k].created_at
           /\ \A f \in found :
                 (\A j \in 1..n : seq[j] # f)
                 => \A j \in 1..n : seq[j].created_at >= f.created_at}

\* one of recall's graph tasks: the driver answers or raises
GraphSearch(b, o) ==
    /\ b \in {"entities", "facts"}
    /\ branch[b].pc = "query"
    /\ UNCHANGED <<store, writeVars, faults, graph, rr>>
    /\ IF o # "ok" THEN Fails(b)
       ELSE \E found \in IF b = "entities"
                         THEN search_entities(call.query, call.limit)
                         ELSE search_facts(call.query, call.limit) :
            /\ branch' = [branch EXCEPT ![b] = Settled(b, "value", found)]
            /\ UNCHANGED call

\* ------------------------------------------------------ call_tool: the reads
\* json.dumps of a result, and of an error (server.py 326-327)
Response(kind, memories, entities, facts) ==
    [kind |-> kind, count |-> Len(memories), memory_id |-> NoId,
     entity_id |-> NoId, fact_id |-> NoId,
     memories |-> memories, entities |-> entities, facts |-> facts]

ErrorResponse == Response("error", <<>>, <<>>, <<>>)

\* a read is called: memory_search (233-239), memory_recent (242-246),
\* recall (292-300), or search_memory itself, called by another client than
\* call_tool.  recall hands its three tasks to asyncio.gather.
StartRead(c) ==
    /\ call.pc = "idle"
    /\ call' = [IdleCall EXCEPT
                  !.tool = c.tool, !.pc = "running", !.query = c.query,
                  !.limit = c.limit, !.memory_type = c.memory_type,
                  !.importance = c.importance, !.status = c.status,
                  !.min_score = c.min_score, !.rerank = c.rerank]
    /\ branch' = [b \in Branches |->
                    IF b = "memories" THEN [IdleBranch EXCEPT !.pc = "ensure"]
                    ELSE IF c.tool = "recall" THEN [IdleBranch EXCEPT !.pc = "query"]
                    ELSE IdleBranch]
    /\ UNCHANGED <<store, writeVars, faults, graph, rr>>

\* the slip of gathering without return_exceptions: the first exception
\* ends the wait
GatherDoneOnFirstException ==
    \/ \A b \in Branches : branch[b].pc = "settled"
    \/ \E b \in Branches : branch[b].outcome = "exception"

\* asyncio.gather(..., return_exceptions=True) (295-300) is done when every
\* task has returned or raised
GatherDone == \A b \in Branches : branch[b].pc = "settled"

\* the slip of reporting the call as failed when a task raised
RecallResultFailsWhole(tasks) ==
    IF \E b \in Branches : tasks[b].outcome = "exception"
    THEN ErrorResponse
    ELSE Response("json", tasks["memories"].value, tasks["entities"].value,
                  tasks["facts"].value)

\* lines 301-306: an exception among the gathered results becomes []
RecallResult(tasks) ==
    LET got(b) == IF tasks[b].outcome # "exception" THEN tasks[b].value ELSE <<>>
    IN Response("json", got("memories"), got("entities"), got("facts"))

\* memory_search / memory_recent return what the search returned; an
\* exception reaches the handler of lines 326-327.  A direct caller of
\* search_memory gets the list, or the exception.
SearchReturns ==
    /\ call.pc = "running"
    /\ call.tool \in {"memory_search", "memory_recent", "search_memory"}
    /\ branch["memories"].pc = "settled"
    /\ call' = [call EXCEPT
                  !.pc = "done",
                  !.response =
                      IF branch["memories"].outcome = "exception"
                      THEN IF call.tool = "search_memory"
                           THEN Response("raised", <<>>, <<>>, <<>>)
                           ELSE ErrorResponse
                      ELSE Response(IF call.tool = "search_memory"
                                    THEN "list" ELSE "json",
                                    branch["memories"].value, <<>>, <<>>)]
    /\ UNCHANGED <<store, writeVars, faults, graph, branch, rr>>

\* recall returns (lines 301-306)
RecallReturns ==
    /\ call.pc = "running"
    /\ call.tool = "recall"
    /\ GatherDone
    /\ call' = [call EXCEPT !.pc = "done", !.response = RecallResult(branch)]
    /\ UNCHANGED <<store, writeVars, faults, graph, branch, rr>>

\* ------------------------------------------------------------ the read side
\* status, memory_type and importance a stored record may have come to
Profiles ==
    {<<"active", "insight", "normal">>, <<"active", "task", "high">>,
     <<"superseded", "insight", "high">>, <<"archived", "insight", "normal">>,
     <<"completed", "task", "normal">>}

\* a record written with `content` and later updated to the profile
StoredRecord(id, content, profile) ==
    [vector |-> _get_embedding(content),
     payload |-> [Memory(id, content, profile[2], id + 1, profile[3], NoId)
                     EXCEPT !.status = profile[1]]]

\* the stores a read runs against: three records, two of them with the same
\* content, each with any profile
ReadStores ==
    {[i \in 1..3 |-> StoredRecord(i, <<"a", "b", "b">>[i], f[i])] :
        f \in [1..3 -> Profiles]}

\* the answers of the Reranker Gateway during a search
SearchAnswers ==
    {[kind |-> "ok", top_logprobs |-> <<<<"Yes", 0>>>>],
     [kind |-> "ok", top_logprobs |-> <<<<" no", 0>>>>],
     [kind |-> "malformed", top_logprobs |-> <<>>],
     [kind |-> "status", top_logprobs |-> <<>>],
     [kind |-> "exc", top_logprobs |-> <<>>]}

ReadCall(tool, query, limit, memory_type, importance, status, min_score, rerank) ==
    [tool |-> tool, query |-> query, limit |-> limit, memory_type |-> memory_type,
     importance |-> importance, status |-> status, min_score |-> min_score,
     rerank |-> rerank]

\* the reads: the tools with the arguments call_tool passes on (search_memory's
\* own defaults for the rest), and search_memory called with its other
\* arguments: an importance, another status or none, a higher min_score
ReadCalls ==
    {ReadCall("memory_search", q, l, t, NoneArg, "active", DefaultMinScore, r) :
        q \in {"a", "c"}, l \in Limits, t \in {NoneArg, "insight"}, r \in BOOLEAN}
    \cup {ReadCall("memory_recent", NoneArg, l, t, NoneArg, NoneArg, 0, FALSE) :
        l \in Limits, t \in {NoneArg, "task"}}
    \cup {ReadCall("recall", q, l, NoneArg, NoneArg, "active", DefaultMinScore, TRUE) :
        q \in {"a", "c"}, l \in Limits}
    \cup {ReadCall("search_memory", "a", MaxLimit, t, i, s, m, FALSE) :
        t \in {NoneArg, "task"}, i \in {NoneArg, "high"},
        s \in {"active", "superseded", NoneArg}, m \in {DefaultMinScore, 95}}

ReadInit ==
    /\ store \in ReadStores
    /\ proc = [p \in Workers |-> IdleProc]
    /\ nextId = 4
    /\ clock = 4
    /\ ops = 0
    /\ updates = 0
    /\ bypassed = FALSE
    /\ faults = 0
    /\ graph = SampleGraph
    /\ call = IdleCall
    /\ branch = [b \in Branches |-> IdleBranch]
    /\ rr = IdleRerank

ReadNext ==
    \/ \E c \in ReadCalls : StartRead(c)
    \/ \E o \in Outcomes : SearchEnsure(o)
    \/ \E o \in Outcomes : SearchEmbed(o)
    \/ \E o \in Outcomes : SearchIndex(o)
    \/ \E answer \in SearchAnswers : branch["memories"].pc = "rerank" /\ RerankScore(answer)
    \/ branch["memories"].pc = "rerank" /\ RerankReturn
    \/ SearchReturn
    \/ \E o \in Outcomes : RecentScroll(o)
    \/ \E b \in Branches, o \in {"ok", "exc"} : GraphSearch(b, o)
    \/ SearchReturns
    \/ RecallReturns

ReadSpec == ReadInit /\ [][ReadNext]_vars

\* ------------------------------------------------- add_entity and add_fact
\* the `properties` argument of add_entity: the keys a caller passed, a key
\* with NoId or NoneArg being one that was not passed
Properties(uuid, description) == [uuid |-> uuid, description |-> description]

\* properties = None (graph.py 39, 42)
NoProperties == Properties(NoId, NoneArg)

\* a uuid of the caller's own, passed as a property
CustomUuid == 99

\* e += $props (graph.py 51-52): every key of props is set on the node; props
\* holds the caller's properties and name, entity_type and created_at
\* (lines 42-45)
SetProperties(e, properties, name, entity_type, t) ==
    [e EXCEPT !.uuid = IF properties.uuid # NoId THEN properties.uuid ELSE @,
              !.description = IF properties.description # NoneArg
                              THEN properties.description ELSE @,
              !.name = name, !.entity_type = entity_type, !.created_at = t]

\* add_entity (graph.py 39-59): MERGE on (name, entity_type); a new node gets
\* the uuid and then the properties, a matched node gets the properties
\* (created_at among them) and updated_at
add_entity(g, name, entity_type, properties, uuid, t) ==
    LET matched == {e \in g.entities : e.name = name /\ e.entity_type = entity_type}
    IN IF matched = {}
       THEN [g EXCEPT !.entities =
                @ \cup {SetProperties(EntityNode(uuid, name, entity_type, 0, 0),
                                      properties, name, entity_type, t)}]
       ELSE [g EXCEPT !.entities =
                (@ \ matched) \cup
                {[SetProperties(e, properties, name, entity_type, t)
                     EXCEPT !.updated_at = t] : e \in matched}]

\* RETURN e.uuid (graph.py 53-59): the uuid of the merged node in the graph
\* `g` the call left
EntityId(g, name, entity_type) ==
    (CHOOSE e \in g.entities : e.name = name /\ e.entity_type = entity_type).uuid

\* add_fact (graph.py 78-97): MERGE on the subject's name alone, creating an
\* Unknown entity when no entity has it; then one Fact node and one HAS_FACT
\* edge for every entity the MERGE yielded
add_fact(g, subject, predicate, object, uuid, s_uuid, t) ==
    LET matched == {e \in g.entities : e.name = subject}
        owners == IF matched = {}
                  THEN {EntityNode(s_uuid, subject, "Unknown", 0, 0)}
                  ELSE matched
    IN [entities |-> g.entities \cup owners,
        facts |-> g.facts \cup
                  {FactNode(uuid, subject, predicate, object, t, e.entity_type) :
                      e \in owners}]

\* ------------------------------------------------------ call_tool: record
\* f"{fact['subject']} {fact['predicate']} {fact['object']}" (line 320)
FactText(fact) ==
    fact.subject \o <<" ">> \o fact.predicate \o <<" ">> \o fact.object

\* the slip of writing the facts before the entities
NextWriteFactsFirst(c) ==
    IF Len(c.results.facts) < Len(c.facts) THEN "facts"
    ELSE IF Len(c.results.entities) < Len(c.entities) THEN "entities"
    ELSE "return"

\* lines 315-321: the entities in order, then the facts in order, then the
\* return
NextWrite(c) ==
    IF Len(c.results.entities) < Len(c.entities) THEN "entities"
    ELSE IF Len(c.results.facts) < Len(c.facts) THEN "facts"
    ELSE "return"

\* line 321: {"success": True, **results}
RecordResponse(results) ==
    [Response("json", <<>>, results.entities, results.facts)
        EXCEPT !.memory_id = results.memory_id]

\* an exception in record reaches the handler of lines 326-327
RecordFails ==
    call' = [call EXCEPT !.pc = "done", !.failed = TRUE, !.response = ErrorResponse]

\* record is called (lines 308-309)
StartRecord(c) ==
    /\ call.pc = "idle"
    /\ call' = [IdleCall EXCEPT !.tool = "record", !.pc = "memory",
                                !.content = c.content, !.memory_type = c.memory_type,
                                !.entities = c.entities, !.facts = c.facts]
    /\ UNCHANGED <<store, writeVars, faults, graph, branch, rr>>

\* lines 310-313: add_memory(content, memory_type) with its defaults
RecordWrite(o) ==
    /\ call.tool = "record"
    /\ call.pc = "memory"
    /\ proc[1].pc = "idle"
    /\ StartWrite(1, [content |-> call.content, memory_type |-> call.memory_type,
                      importance |-> "normal", supersedes |-> NoId,
                      deduplicate |-> TRUE], o)

\* line 314: add_memory has returned the id, or raised
RecordMemoryWritten ==
    /\ call.tool = "record"
    /\ call.pc = "memory"
    /\ proc[1].pc = "done"
    /\ IF proc[1].outcome = "raised" THEN RecordFails
       ELSE LET c == [call EXCEPT !.results.memory_id = proc[1].ret_id]
            IN call' = [c EXCEPT !.pc = NextWrite(c)]
    /\ UNCHANGED <<store, writeVars, faults, graph, branch, rr>>

\* lines 315-317: one entity
RecordEntity(o) ==
    LET entity == call.entities[Len(call.results.entities) + 1] IN
    /\ call.pc = "entities"
    /\ o # "status"
    /\ Fault(o)
    /\ UNCHANGED <<store, proc, ops, updates, bypassed, branch, rr>>
    /\ IF o = "exc"
       THEN RecordFails /\ UNCHANGED <<graph, nextId, clock>>
       ELSE /\ graph' = add_entity(graph, entity.name, entity.type, NoProperties,
                                   nextId, clock + 1)
            /\ nextId' = nextId + 1
            /\ Now(clock + 1)
            /\ LET c == [call EXCEPT !.results.entities = Append(@, entity.name)]
               IN call' = [c EXCEPT !.pc = NextWrite(c)]

\* lines 318-320: one fact
RecordFact(o) ==
    LET fact == call.facts[Len(call.results.facts) + 1] IN
    /\ call.pc = "facts"
    /\ o # "status"
    /\ Fault(o)
    /\ UNCHANGED <<store, proc, ops, updates, bypassed, branch, rr>>
    /\ IF o = "exc"
       THEN RecordFails /\ UNCHANGED <<graph, nextId, clock>>
       ELSE /\ graph' = add_fact(graph, fact.subject, fact.predicate, fact.object,
                                 nextId, nextId + 1, clock + 1)
            /\ nextId' = nextId + 2
            /\ Now(clock + 1)
            /\ LET c == [call EXCEPT !.results.facts = Append(@, FactText(fact))]
               IN call' = [c EXCEPT !.pc = NextWrite(c)]

\* line 321
RecordReturns ==
    /\ call.tool = "record"
    /\ call.pc = "return"
    /\ call' = [call EXCEPT !.pc = "done", !.response = RecordResponse(call.results)]
    /\ UNCHANGED <<store, writeVars, faults, graph, branch, rr>>

\* the entities and facts a record call names
SampleEntities ==
    <<[name |-> <<"A">>, type |-> "Person"], [name |-> <<"c">>, type |-> "Unknown"]>>

SampleFacts ==
    <<[subject |-> <<"A">>, predicate |-> <<"h">>, object |-> <<"c">>],
      [subject |-> <<"d">>, predicate |-> <<"h">>, object |-> <<"A">>]>>

RecordCalls ==
    [content : {"a", "b"}, memory_type : {"insight"},
     entities : {SubSeq(SampleEntities, 1, n) : n \in 0..2},
     facts : {SubSeq(SampleFacts, 1, n) : n \in 0..2}]

\* record runs against an empty store or one holding an active insight, and
\* an empty graph or one written earlier
RecordInit ==
    /\ store \in {[i \in {} |-> NoPoint],
                  [i \in {5} |-> StoredRecord(5, "a", <<"active", "insight", "normal">>)]}
    /\ proc = [p \in Workers |-> IdleProc]
    /\ nextId = 10
    /\ clock = 10
    /\ ops = 0
    /\ updates = 0
    /\ bypassed = FALSE
    /\ faults = 0
    /\ graph \in {EmptyGraph, SampleGraph}
    /\ call = IdleCall
    /\ branch = [b \in Branches |-> IdleBranch]
    /\ rr = IdleRerank

RecordNext ==
    \/ \E c \in RecordCalls : StartRecord(c)
    \/ \E o \in Outcomes : RecordWrite(o)
    \/ \E o \in Outcomes : AddPut(1, o)
    \/ \E o \in Outcomes : UpdateLoad(1, o)
    \/ \E o \in Outcomes : UpdateEmbed(1, o)
    \/ \E o \in Outcomes : UpdatePut(1, o)
    \/ RecordMemoryWritten
    \/ \E o \in Outcomes : RecordEntity(o)
    \/ \E o \in Outcomes : RecordFact(o)
    \/ RecordReturns

RecordSpec == RecordInit /\ [][RecordNext]_vars

\* ------------------------- call_tool: graph_add_entity and graph_add_fact
\* calls of the two tools in one run
MaxGraphOps == 3

\* graph_add_entity (server.py 258-260): one add_entity; an exception
\* reaches the handler of lines 326-327
GraphAddEntity(c, o) ==
    /\ ops < MaxGraphOps
    /\ ops' = ops + 1
    /\ UNCHANGED <<store, proc, updates, bypassed, faults, branch, rr>>
    /\ IF o = "exc"
       THEN /\ call' = [IdleCall EXCEPT
                          !.tool = "graph_add_entity", !.pc = "done",
                          !.entities = <<c>>, !.failed = TRUE,
                          !.response = ErrorResponse]
            /\ UNCHANGED <<graph, nextId, clock>>
       ELSE LET g == add_entity(graph, c.name, c.type, c.properties,
                                nextId, clock + 1)
            IN /\ graph' = g
               /\ nextId' = nextId + 1
               /\ Now(clock + 1)
               /\ call' = [IdleCall EXCEPT
                             !.tool = "graph_add_entity", !.pc = "done",
                             !.entities = <<c>>,
                             !.response =
                                 [Response("json", <<>>, <<>>, <<>>) EXCEPT
                                     !.entity_id = EntityId(g, c.name, c.type)]]

\* graph_add_fact (server.py 266-268): one add_fact, which returns the
\* fact_id it drew (graph.py 80, 97)
GraphAddFact(c, o) ==
    /\ ops < MaxGraphOps
    /\ ops' = ops + 1
    /\ UNCHANGED <<store, proc, updates, bypassed, faults, branch, rr>>
    /\ IF o = "exc"
       THEN /\ call' = [IdleCall EXCEPT
                          !.tool = "graph_add_fact", !.pc = "done",
                          !.facts = <<c>>, !.failed = TRUE,
                          !.response = ErrorResponse]
            /\ UNCHANGED <<graph, nextId, clock>>
       ELSE /\ graph' = add_fact(graph, c.subject, c.predicate, c.object,
                                 nextId, nextId + 1, clock + 1)
            /\ nextId' = nextId + 2
            /\ Now(clock + 1)
            /\ call' = [IdleCall EXCEPT
                          !.tool = "graph_add_fact", !.pc = "done",
                          !.facts = <<c>>,
                          !.response =
                              [Response("json", <<>>, <<>>, <<>>) EXCEPT
                                  !.fact_id = nextId]]

\* the entities the tool is called with: two names, two types, and no
\* properties, a description, or a uuid of the caller's
EntityCalls ==
    [name : {<<"A">>, <<"c">>}, type : {"Person", "Unknown"},
     properties : {NoProperties, Properties(NoId, "x"),
                   Properties(CustomUuid, NoneArg)}]

\* the facts the tool is called with: about a name entities are added
\* under, and about a name no entity has
FactCalls ==
    {[subject |-> s, predicate |-> <<"h">>, object |-> <<"c">>] :
        s \in {<<"A">>, <<"d">>}}

\* the tools run against an empty graph or one written earlier
GraphInit ==
    /\ store = [i \in {} |-> NoPoint]
    /\ proc = [p \in Workers |-> IdleProc]
    /\ nextId = 10
    /\ clock = 10
    /\ ops = 0
    /\ updates = 0
    /\ bypassed = FALSE
    /\ faults = 0
    /\ graph \in {EmptyGraph, SampleGraph}
    /\ call = IdleCall
    /\ branch = [b \in Branches |-> IdleBranch]
    /\ rr = IdleRerank

GraphNext ==
    \/ \E c \in EntityCalls, o \in {"ok", "exc"} : GraphAddEntity(c, o)
    \/ \E c \in FactCalls, o \in {"ok", "exc"} : GraphAddFact(c, o)

GraphSpec == GraphInit /\ [][GraphNext]_vars

\* ------------------------------------------------------------- properties
\* worker p's add_memory returns an id to its caller in this step
WriteReturns(p) ==
    /\ proc[p].op = "write"
    /\ ~Free(p)
    /\ proc'[p].pc = "done"
    /\ proc'[p].outcome = "returned"

\* two distinct active records of one memory_type within the dedup threshold
ActiveDuplicates ==
    {pair \in Ids \X Ids :
        /\ pair[1] # pair[2]
        /\ store[pair[1]].payload.status = "active"
        /\ store[pair[2]].payload.status = "active"
        /\ store[pair[1]].payload.memory_type = store[pair[2]].payload.memory_type
        /\ Score(store[pair[1]].vector, store[pair[2]].vector) >= SimilarityThreshold}

\* the filter of search_memory (lines 315-321) with only the default status
DefaultSearchMatches(payload) == payload.status = "active"

\* C1: a deduplicating write without supersedes that is made while an active
\* record of its memory_type is within the threshold returns the id of such a
\* record, leaves that record holding the written content, and stores no
\* additional record.
C1_DedupWriteMergesIntoExisting ==
    [][\A p \in Workers :
          (/\ WriteReturns(p)
           /\ proc[p].deduplicate
           /\ proc[p].supersedes = NoId
           /\ proc[p].similar # {})
          => /\ proc'[p].ret_id \in proc[p].similar
             /\ store'[proc'[p].ret_id].payload.content = proc[p].content
             /\ DOMAIN store' = DOMAIN store]_vars

\* C2: while every operation so far was a write that took the dedup branch,
\* and no backend call failed, no two distinct active records of one
\* memory_type are within the dedup threshold of each other.
C2_OneActivePerCluster ==
    (updates = 0 /\ ~bypassed /\ faults = 0) => ActiveDuplicates = {}

\* C3: the upsert of a merge never lowers the importance of the existing
\* record: it becomes the higher of existing and supplied importance when the
\* supplied one is not the default, and stays as it was otherwise.
C3_MergePromotesImportance ==
    [][\A p \in Workers :
          (/\ proc[p].pc = "um_put"
           /\ proc[p].caller = "merge"
           /\ store' # store)
          => LET before == store[proc[p].u_id].payload.importance
                 after == store'[proc[p].u_id].payload.importance
                 supplied == proc[p].importance
             IN /\ Rank(after) >= Rank(before)
                /\ after = IF supplied = "normal" THEN before
                           ELSE IF Rank(supplied) >= Rank(before) THEN supplied
                           ELSE before]_vars

\* C4: when write(B, supersedes=A) returns for a stored record A, A is
\* superseded with superseded_by = B's id, B is stored and active with
\* supersedes = A's id, and the default search filter excludes A.
C4_SupersessionLinksBothWays ==
    [][\A p \in Workers :
          (WriteReturns(p) /\ proc[p].supersedes \in Ids)
          => LET A == proc[p].supersedes
                 B == proc'[p].ret_id
             IN /\ B \in DOMAIN store'
                /\ store'[A].payload.status = "superseded"
                /\ store'[A].payload.superseded_by = B
                /\ store'[B].payload.supersedes = A
                /\ store'[B].payload.status = "active"
                /\ ~DefaultSearchMatches(store'[A].payload)]_vars

\* C5: every superseded record names in superseded_by a stored record whose
\* supersedes field names it back.
C5_SupersededHasBackLink ==
    \A i \in Ids :
        store[i].payload.status = "superseded"
        => /\ store[i].payload.superseded_by \in Ids
           /\ store[store[i].payload.superseded_by].payload.supersedes = i

\* C6: no stored record is named by the supersedes field of more than one
\* stored record.
C6_AtMostOneSuperseder ==
    \A a \in Ids : Cardinality({i \in Ids : store[i].payload.supersedes = a}) <= 1

\* C7: no step takes a record from status superseded to status active.
C7_SupersededNeverReactivated ==
    [][\A i \in Ids :
          store[i].payload.status = "superseded"
          => store'[i].payload.status # "active"]_vars

\* the ids reached from i by following a link field one or more times
RECURSIVE Follow(_, _, _)
Follow(link, i, n) ==
    IF n = 0 \/ i \notin Ids \/ link[i] \notin Ids THEN {}
    ELSE {link[i]} \cup Follow(link, link[i], n - 1)

SupersedesLink == [i \in Ids |-> store[i].payload.supersedes]
SupersededByLink == [i \in Ids |-> store[i].payload.superseded_by]

\* C8: following supersedes links, or superseded_by links, from a record
\* never leads back to that record.
C8_ChainsAcyclic ==
    \A i \in Ids :
        /\ i \notin Follow(SupersedesLink, i, Cardinality(Ids))
        /\ i \notin Follow(SupersededByLink, i, Cardinality(Ids))

\* C9: the vector of every stored record is the embedding of the content the
\* record holds.
C9_VectorMatchesContent ==
    \A i \in Ids : store[i].vector = _get_embedding(store[i].payload.content)

\* a record written as a task, so with content "a", now holds "b" with the
\* matching vector, and some operation ended with a raised backend failure
C9_Witness ==
    /\ \E i \in Ids :
          /\ store[i].payload.content = "b"
          /\ store[i].payload.memory_type = "task"
          /\ store[i].vector = _get_embedding("b")
    /\ \E p \in Workers : proc[p].pc = "done" /\ proc[p].outcome = "raised"

\* C10: an add_memory during which a backend call failed ends by raising.
C10_WriteFailureIsReported ==
    \A p \in Workers :
        (proc[p].pc = "done" /\ proc[p].op = "write" /\ proc[p].failed)
        => proc[p].outcome = "raised"

\* worker p's update_memory is called through the API in this step
UpdateCalled(p) == updates' = updates + 1 /\ proc'[p] # proc[p]

\* C14: an update_memory for an id that is not in the store ends with its
\* scroll: it returns False, or raises when the scroll itself raised, and it
\* never returns True; it leaves the store as it was, so only an update of a
\* stored id goes on to the embed or the upsert, and the upsert of an update
\* never adds a point.
C14_UnknownIdUpdateIsNoOp ==
    [][\A p \in Workers :
          /\ UpdateCalled(p)
             => /\ store' = store
                /\ \/ /\ proc'[p].pc \in {"um_embed", "um_put"}
                      /\ proc'[p].u_id \in Ids
                   \/ /\ proc'[p].pc = "done"
                      /\ proc'[p].outcome = "raised" => proc'[p].failed
                      /\ proc'[p].outcome = "returned" => ~proc'[p].ret_ok
          /\ (proc[p].pc \in {"um_embed", "um_put"} /\ proc'[p] # proc[p])
             => /\ proc[p].u_id \in Ids
                /\ DOMAIN store' = DOMAIN store]_vars

\* an update_memory called on a non-empty store returned False although no
\* backend call of it failed: its id was not found
C14_Witness ==
    /\ Ids # {}
    /\ \E p \in Workers :
          /\ proc[p].pc = "done"
          /\ proc[p].op = "update"
          /\ proc[p].outcome = "returned"
          /\ ~proc[p].ret_ok
          /\ ~proc[p].failed

\* C15: every upsert that changes a stored record stores a timestamp later
\* than the one the record held before.
C15_TimestampStrictlyIncreases ==
    [][\A i \in Ids :
          store'[i] # store[i]
          => store'[i].payload.timestamp > store[i].payload.timestamp]_vars

\* worker p's add_memory, called with a supersedes target, takes a step
\* (the target's update_memory included)
SupersedingWriteSteps(p) ==
    /\ proc'[p] # proc[p]
    /\ \/ proc[p].pc = "am_put" /\ proc[p].supersedes # NoId
       \/ proc[p].pc \in {"um_load", "um_put"} /\ proc[p].caller = "supersede"

\* C17: an add_memory called with a supersedes target never starts a merge
\* (it passes no content to update_memory); its upsert adds one record,
\* with the written content, under an id that no record had; and when it
\* returns, it returns that id and a record is stored under it.
C17_SupersedingWriteCreatesRecord ==
    [][\A p \in Workers :
          /\ proc'[p].supersedes # NoId
             => proc'[p].caller # "merge" /\ proc'[p].u_content = NoneArg
          /\ (Free(p) /\ proc'[p].supersedes # NoId)
             => /\ proc'[p].pc = "am_put"
                /\ proc'[p].memory_id \notin Ids
                /\ \A q \in Workers \ {p} : proc[q].memory_id # proc'[p].memory_id
          /\ (SupersedingWriteSteps(p) /\ proc[p].pc = "am_put" /\ store' # store)
             => /\ proc[p].memory_id \notin Ids
                /\ DOMAIN store' = Ids \cup {proc[p].memory_id}
                /\ store'[proc[p].memory_id].payload.content = proc[p].content
          /\ (WriteReturns(p) /\ proc[p].supersedes # NoId)
             => /\ proc'[p].ret_id = proc[p].memory_id
                /\ proc'[p].ret_id \in DOMAIN store']_vars

\* the logprobs a 200 answer carries for tokens of one kind
Available(answer, kinds) ==
    {answer.top_logprobs[k][2] : k \in
        {j \in 1..Len(answer.top_logprobs) :
            Normalise(answer.top_logprobs[j][1]) \in kinds}}

\* C20: the score a document got in the last turn of the loop is: the
\* two-outcome softmax of an affirmative and a negative logprob when the
\* answer carries both; 0.9 when it carries only an affirmative one; 0.1 when
\* only a negative one; and otherwise (neither, a non-success status, a
\* response without logprobs, an exception) the document's similarity score,
\* or 0.5 when the document has none.
C20_FusedScoreByCases ==
    rr.scored_docs # <<>>
    => LET score == rr.scored_docs[Len(rr.scored_docs)][1]
           doc == rr.scored_docs[Len(rr.scored_docs)][2]
           yes == IF rr.answer.kind = "ok" THEN Available(rr.answer, YesTokens) ELSE {}
           no == IF rr.answer.kind = "ok" THEN Available(rr.answer, NoTokens) ELSE {}
       IN /\ doc = rr.documents[Len(rr.scored_docs)]
          /\ IF yes # {} /\ no # {}
             THEN \E y \in yes, n \in no :
                     score = (Exp(y) * 100) \div (Exp(y) + Exp(n))
             ELSE IF yes # {} THEN score = 90
             ELSE IF no # {} THEN score = 10
             ELSE IF doc.score # NoScore THEN score = doc.score
             ELSE score = 50

\* _rerank returned three documents: one scored by the softmax of unequal
\* logprobs, one by the fixed 0.9, and one without a similarity score that
\* fell back to 0.5 when the gateway raised on the last turn
C20_Witness ==
    /\ rr.pc = "returned"
    /\ Len(rr.result) = 3
    /\ rr.answer.kind = "exc"
    /\ \E i, j, k \in 1..3 :
          /\ rr.result[i].rerank_score = 66
          /\ rr.result[j].rerank_score = 90
          /\ rr.result[k].rerank_score = 50 /\ rr.result[k].score = NoScore

\* C11: a memory search or recent-memories read during which the Vector
\* Index or the Embedding Gateway failed hands its caller an empty result
\* list, not an error.
C11_ReadFailureYieldsEmptyList ==
    (/\ call.pc = "done"
     /\ call.tool \in {"memory_search", "memory_recent", "search_memory"}
     /\ call.failed)
    => /\ call.response.kind \in {"json", "list"}
       /\ call.response.memories = <<>>

\* C12: recall's answer is a result, never an error; in it each task that
\* raised is an empty list and each other task is what that task returned,
\* which for the graph searches is a full listing of the matches and for
\* the memory search the first `limit` of its candidates.
C12_RecallMergesBranches ==
    (call.tool = "recall" /\ call.pc = "done")
    => /\ call.response.kind = "json"
       /\ \A b \in Branches :
             call.response[b] =
                 IF branch[b].outcome = "exception" THEN <<>> ELSE branch[b].value
       /\ branch["entities"].outcome = "value"
          => call.response.entities \in search_entities(call.query, call.limit)
       /\ branch["facts"].outcome = "value"
          => call.response.facts \in search_facts(call.query, call.limit)
       /\ branch["memories"].outcome = "value"
          => /\ Len(call.response.memories) =
                    Min(call.limit, Len(branch["memories"].candidates))
             /\ \A k \in 1..Len(call.response.memories) :
                   \E j \in 1..Len(branch["memories"].candidates) :
                      call.response.memories[k].payload =
                          branch["memories"].candidates[j].payload

\* recall answered with memories although both graph searches raised
C12_Witness ==
    /\ call.tool = "recall"
    /\ call.pc = "done"
    /\ branch["entities"].outcome = "exception"
    /\ branch["facts"].outcome = "exception"
    /\ call.response.memories # <<>>
    /\ call.response.entities = <<>>
    /\ call.response.facts = <<>>

\* C13: recall returns only in a state where all three tasks have returned
\* or raised; until then it stays waiting; and the step in which one task
\* raises changes no other task.
C13_RecallWaitsForAllBranches ==
    [][/\ (call'.tool = "recall" /\ call'.pc = "done")
          => \A b \in Branches : branch'[b].pc = "settled"
       /\ (call.tool = "recall" /\ call.pc = "running"
           /\ \E b \in Branches : branch[b].pc # "settled")
          => call'.pc = "running"
       /\ \A b \in Branches :
             (branch[b].outcome # "exception" /\ branch'[b].outcome = "exception")
             => \A c \in Branches \ {b} : branch'[c] = branch[c]]_vars

\* recall has returned, and one of its tasks returned matches after another
\* task had raised
C13_Witness ==
    /\ call.tool = "recall"
    /\ call.pc = "done"
    /\ \E b \in Branches :
          /\ branch[b].outcome = "value"
          /\ branch[b].value # <<>>
          /\ branch[b].ran_after_failure

\* C16: every record a search returns is a stored record that has the
\* status asked for, the memory_type asked for and the importance asked
\* for, each when supplied; memory_search and recall, which supply no
\* status, return active records only.
C16_SearchFilterIsConjunctive ==
    (call.tool \in {"memory_search", "recall", "search_memory"})
    => \A k \in 1..Len(branch["memories"].value) :
          LET payload == branch["memories"].value[k].payload IN
          /\ payload.id \in Ids
          /\ payload = store[payload.id].payload
          /\ call.status # NoneArg => payload.status = call.status
          /\ call.memory_type # NoneArg => payload.memory_type = call.memory_type
          /\ call.importance # NoneArg => payload.importance = call.importance
          /\ call.tool \in {"memory_search", "recall"} => payload.status = "active"

\* a search for active tasks of high importance returned the one such record
\* of a store that also holds a superseded and an archived record
C16_Witness ==
    /\ call.tool = "search_memory"
    /\ call.pc = "done"
    /\ call.status = "active"
    /\ call.memory_type = "task"
    /\ call.importance = "high"
    /\ Len(call.response.memories) = 1
    /\ \E i, j \in Ids :
          /\ store[i].payload.status = "superseded"
          /\ store[j].payload.status = "archived"

\* C18: in record, the store changes only before any entity or fact is
\* written; an entity is written only after add_memory has returned and
\* before any fact, and it is the next entity of the call; a fact is written
\* only after every entity of the call, and it is the next fact; and no
\* step, a failing write included, removes a record, an entity or a fact
\* or takes an entry off the lists of what was written.
C18_RecordWritesInOrderNoRollback ==
    [][/\ store' # store
          => /\ call.results.entities = <<>> /\ call.results.facts = <<>>
             /\ graph' = graph
       /\ call'.results.entities # call.results.entities
          => LET entity == call.entities[Len(call.results.entities) + 1] IN
             /\ proc[1].pc = "done" /\ proc[1].outcome = "returned"
             /\ call.results.memory_id = proc[1].ret_id
             /\ call.results.facts = <<>> /\ graph'.facts = graph.facts
             /\ call'.results.entities = Append(call.results.entities, entity.name)
             /\ \E e \in graph'.entities :
                   e.name = entity.name /\ e.entity_type = entity.type
       /\ graph'.facts # graph.facts
          => LET fact == call.facts[Len(call.results.facts) + 1] IN
             /\ Len(call.results.entities) = Len(call.entities)
             /\ graph.facts \subseteq graph'.facts
             /\ call'.results.facts = Append(call.results.facts, FactText(fact))
             /\ \E f \in graph'.facts \ graph.facts :
                   /\ f.subject = fact.subject
                   /\ f.predicate = fact.predicate
                   /\ f.object = fact.object
       /\ (call.tool = "record" /\ call'.tool = "record")
          => /\ Ids \subseteq DOMAIN store'
             /\ {e.uuid : e \in graph.entities} \subseteq {e.uuid : e \in graph'.entities}
             /\ graph.facts \subseteq graph'.facts
             /\ Len(call'.results.entities) >= Len(call.results.entities)
             /\ Len(call'.results.facts) >= Len(call.results.facts)
       /\ (call'.failed /\ ~call.failed)
          => store' = store /\ graph' = graph /\ call'.results = call.results]_vars

\* record ended in a failure of its second fact write: the memory it wrote,
\* both entities and the first fact are in the stores
C18_Witness ==
    /\ call.tool = "record"
    /\ call.pc = "done"
    /\ call.failed
    /\ call.results.memory_id \in Ids
    /\ Len(call.entities) = 2 /\ Len(call.results.entities) = 2
    /\ Len(call.facts) = 2 /\ Len(call.results.facts) = 1
    /\ \A k \in 1..2 : \E e \in graph.entities : e.name = call.entities[k].name
    /\ \E f \in graph.facts :
          f.created_at > 10 /\ f.subject = call.facts[1].subject

\* C19: when record has written its memory, its answer is a result that
\* carries the memory_id and lists the entities and the facts that were
\* written, also when a later entity or fact write failed.
C19_RecordReportsWhatSucceeded ==
    (call.tool = "record" /\ call.pc = "done" /\ call.results.memory_id # NoId)
    => /\ call.response.kind = "json"
       /\ call.response.memory_id = call.results.memory_id
       /\ call.response.entities = call.results.entities
       /\ call.response.facts = call.results.facts

\* C21: what _rerank returns is a permutation of the documents it was given,
\* each carrying its fused score, in order of non-increasing fused score; two
\* documents with the same fused score stand in the order they had in the
\* input.
C21_RerankIsStablePermutation ==
    (rr.pc = "returned" /\ rr.documents # <<>>)
    => LET n == Len(rr.documents) IN
       /\ Len(rr.result) = n
       /\ \E from \in [1..n -> 1..n] :
             /\ \A j, k \in 1..n : j < k => from[j] # from[k]
             /\ \A k \in 1..n :
                   /\ rr.scored_docs[from[k]][2] = rr.documents[from[k]]
                   /\ rr.result[k] =
                         [rr.documents[from[k]] EXCEPT
                             !.rerank_score = rr.scored_docs[from[k]][1]]
             /\ \A j, k \in 1..n :
                   j < k => /\ rr.result[j].rerank_score >= rr.result[k].rerank_score
                            /\ rr.result[j].rerank_score = rr.result[k].rerank_score
                               => from[j] < from[k]

\* _rerank returned three documents in another order than the input's: the
\* third of the input came first, and the first two, with equal fused
\* scores, follow it in their input order
C21_Witness ==
    /\ rr.pc = "returned"
    /\ Len(rr.result) = 3
    /\ rr.result[1].payload.id = 3
    /\ rr.result[2].payload.id = 1
    /\ rr.result[3].payload.id = 2
    /\ rr.result[2].rerank_score = rr.result[3].rerank_score
    /\ rr.documents[1].score # rr.documents[2].score

\* the ids of the records in a list of candidates, in the list's order
RecordIds(docs) == [k \in 1..Len(docs) |-> docs[k].payload.id]

\* search_memory called _rerank in the call being served, and _rerank has
\* returned
RerankReturned ==
    /\ call.tool \in {"memory_search", "recall"}
    /\ call.rerank
    /\ branch["memories"].candidates # <<>>
    /\ rr.pc = "returned"

\* C22: when the Reranker Gateway failed for every candidate of a search,
\* _rerank returns the candidates in the order the index gave them, and the
\* search returns the ids a search with rerank=false returns: the first
\* `limit` of that order, which is an answer of the index to a request for
\* `limit` candidates.
C22_FallbackKeepsSimilarityOrder ==
    (RerankReturned /\ rr.unanswered = 1..Len(rr.documents))
    => /\ rr.documents = branch["memories"].candidates
       /\ RecordIds(rr.result) = RecordIds(branch["memories"].candidates)
       /\ branch["memories"].pc = "settled"
          => /\ branch["memories"].outcome = "value"
             /\ RecordIds(branch["memories"].value) \in
                   {RecordIds(plain) : plain \in
                       IndexSearch(_get_embedding(call.query),
                                   SearchFilter(call.status, call.memory_type,
                                                call.importance),
                                   call.limit, call.min_score)}

\* a search with rerank=true for one record got three candidates of two
\* different similarities from the index, the gateway failed for each, and
\* the search returned the candidate the index put first
C22_Witness ==
    /\ RerankReturned
    /\ call.pc = "done"
    /\ call.limit = 1
    /\ Len(rr.documents) = 3
    /\ rr.unanswered = {1, 2, 3}
    /\ rr.documents[1].score > rr.documents[3].score
    /\ Len(call.response.memories) = 1
    /\ call.response.memories[1].payload.id = rr.documents[1].payload.id

\* C23: a search that has called _rerank does not end in an exception,
\* whatever the Reranker Gateway did for each candidate (a 200 answer,
\* another status, a response without logprobs, an exception): every
\* candidate the gateway gave no usable answer for is in _rerank's result
\* with its similarity as fused score, and the call answers with a result
\* list, the first `limit` documents of what _rerank returned.
C23_RerankNeverRaises ==
    (call.tool \in {"memory_search", "recall"} /\ call.rerank
        /\ branch["memories"].candidates # <<>>)
    => /\ branch["memories"].outcome # "exception"
       /\ rr.documents = branch["memories"].candidates
       /\ rr.pc = "returned"
          => \A k \in rr.unanswered :
                \E j \in 1..Len(rr.result) :
                   rr.result[j] = [rr.documents[k] EXCEPT
                                      !.rerank_score = rr.documents[k].score]
       /\ call.pc = "done"
          => /\ rr.pc = "returned"
             /\ call.response.kind = "json"
             /\ Len(call.response.memories) = Min(call.limit, Len(rr.documents))
             /\ \A k \in 1..Len(call.response.memories) :
                   call.response.memories[k] = rr.result[k]

\* a search with rerank=true got three candidates; the gateway answered for
\* the first and gave nothing usable for the other two, last a response
\* without logprobs; the search returned two records
C23_Witness ==
    /\ call.tool = "memory_search"
    /\ call.rerank
    /\ call.pc = "done"
    /\ Len(rr.documents) = 3
    /\ rr.unanswered = {2, 3}
    /\ rr.answer.kind = "malformed"
    /\ call.response.kind = "json"
    /\ Len(call.response.memories) = 2

\* what the index may answer to the search of the call being served when
\* asked for `n` candidates
IndexAnswers(n) ==
    IndexSearch(_get_embedding(call.query),
                SearchFilter(call.status, call.memory_type, call.importance),
                n, call.min_score)

\* C26: a search that returned has at most `limit` records, each with a
\* similarity of at least min_score.  With rerank=true the candidates are an
\* answer of the index to a request for limit x 3, and the records returned
\* are in order of non-increasing fused score with no candidate left out
\* that has a higher fused score than one returned; with rerank=false the
\* candidates are an answer to a request for `limit` and are returned as
\* they came.
C26_SearchLimitAndOverFetch ==
    (call.tool \in {"memory_search", "recall", "search_memory"}
        /\ branch["memories"].pc = "settled"
        /\ branch["memories"].outcome = "value")
    => LET value == branch["memories"].value
           candidates == branch["memories"].candidates
       IN /\ Len(value) <= call.limit
          /\ \A k \in 1..Len(value) : value[k].score >= call.min_score
          /\ IF call.rerank
             THEN /\ candidates \in IndexAnswers(call.limit * 3)
                  /\ Len(value) = Min(call.limit, Len(candidates))
                  /\ candidates # <<>>
                     => /\ RecordIds(rr.documents) = RecordIds(candidates)
                        /\ \A k \in 1..Len(value) : value[k] = rr.result[k]
                        /\ \A j, k \in 1..Len(value) :
                              j < k => value[j].rerank_score >= value[k].rerank_score
                        /\ \A j \in 1..Len(value), k \in 1..Len(rr.result) :
                              k > Len(value)
                              => value[j].rerank_score >= rr.result[k].rerank_score
             ELSE /\ candidates \in IndexAnswers(call.limit)
                  /\ value = candidates

\* a search with rerank=true for one record got three candidates from the
\* index and returned the one the index had put last, which the reranker
\* scored highest
C26_Witness ==
    /\ call.tool = "memory_search"
    /\ call.pc = "done"
    /\ call.rerank
    /\ call.limit = 1
    /\ Len(branch["memories"].candidates) = 3
    /\ Len(call.response.memories) = 1
    /\ call.response.memories[1].payload.id =
          branch["memories"].candidates[3].payload.id
    /\ call.response.memories[1].rerank_score = 90

\* no two Entity nodes of graph `g` have the same name and entity_type
AtMostOnePerPair(g) ==
    \A e1, e2 \in g.entities :
        (e1.name = e2.name /\ e1.entity_type = e2.entity_type) => e1 = e2

\* C24: after every add_entity and add_fact there is at most one Entity node
\* per (name, entity_type).  An add_entity for a pair that has no node adds
\* one and returns its id; an add_entity for a pair that has a node leaves
\* the number of entities as it is, sets the properties passed and
\* updated_at on that node, and returns the id the node had, which is the id
\* the pair's first add returned.
C24_EntityMergedByNameAndType ==
    [][/\ AtMostOnePerPair(graph')
       /\ (ops' = ops + 1 /\ call'.tool = "graph_add_entity" /\ ~call'.failed)
          => LET c == call'.entities[1]
                 same(g) == {e \in g.entities :
                                e.name = c.name /\ e.entity_type = c.type}
             IN /\ \A e \in same(graph') : call'.response.entity_id = e.uuid
                /\ IF same(graph) = {}
                   THEN Cardinality(graph'.entities) = Cardinality(graph.entities) + 1
                   ELSE /\ Cardinality(graph'.entities) = Cardinality(graph.entities)
                        /\ \A e \in same(graph') :
                              /\ e.updated_at = clock'
                              /\ c.properties.description # NoneArg
                                 => e.description = c.properties.description
                        /\ \A e \in same(graph) :
                              call'.response.entity_id = e.uuid]_vars

\* C29: a successful add_fact adds exactly one Fact node, the one whose id it
\* returns, with the triple of the call, linked from an Entity named by the
\* subject; when no entity had that name it adds exactly one Entity, of type
\* Unknown and with that name, and otherwise it adds and changes no entity.
C29_AddFactCreatesOneFact ==
    [][(ops' = ops + 1 /\ call'.tool = "graph_add_fact" /\ ~call'.failed)
       => LET c == call'.facts[1]
              named(g) == {e \in g.entities : e.name = c.subject}
              created == graph'.facts \ graph.facts
          IN /\ graph.facts \subseteq graph'.facts
             /\ Cardinality(created) = 1
             /\ \A f \in created :
                   /\ f.uuid = call'.response.fact_id
                   /\ f.subject = c.subject
                   /\ f.predicate = c.predicate
                   /\ f.object = c.object
                   /\ \E e \in named(graph') : e.entity_type = f.owner
             /\ IF named(graph) = {}
                THEN \E e \in graph'.entities :
                        /\ e \notin graph.entities
                        /\ graph'.entities = graph.entities \cup {e}
                        /\ e.name = c.subject
                        /\ e.entity_type = "Unknown"
                ELSE graph'.entities = graph.entities]_vars

\* C27: every stored record whose supersedes field is set names a record
\* that is in the store.
C27_SupersedesNamesStoredRecord ==
    \A i \in Ids :
        store[i].payload.supersedes # NoId
        => store[i].payload.supersedes \in Ids

\* C28: the upsert of an update_memory that was given neither a status nor a
\* superseded_by (the update of a deduplicating write that merges among
\* them) leaves the supersession marking of its record as the store has it:
\* when the record is superseded and its superseded_by names the record
\* written to supersede it, both fields are the same after the upsert.
C28_UpsertKeepsSupersession ==
    [][\A p \in Workers :
          (/\ proc[p].pc = "um_put"
           /\ proc'[p] # proc[p]
           /\ proc[p].u_status = NoneArg
           /\ proc[p].u_superseded_by = NoId
           /\ proc[p].u_id \in Ids)
          => LET a == proc[p].u_id
                 b == store[a].payload.superseded_by
             IN (/\ store[a].payload.status = "superseded"
                 /\ b \in Ids
                 /\ store[b].payload.supersedes = a)
                => /\ store'[a].payload.status = "superseded"
                   /\ store'[a].payload.superseded_by = b]_vars

\* C25: the upsert of an update_memory changes no other record, adds none,
\* and in its own record changes only timestamp and the fields the call
\* passed (content with the vector, status, importance, superseded_by): id,
\* memory_type, source, tags, supersedes and every field not passed are
\* after the upsert what the store held before it.
C25_UpdateChangesOnlyPassedFields ==
    [][\A p \in Workers :
          (proc[p].pc = "um_put" /\ proc'[p] # proc[p] /\ proc[p].u_id \in Ids)
          => LET a == proc[p].u_id
                 old == store[a].payload
                 new == store'[a].payload
             IN /\ DOMAIN store' = DOMAIN store
                /\ \A i \in Ids \ {a} : store'[i] = store[i]
                /\ new.id = old.id
                /\ new.memory_type = old.memory_type
                /\ new.source = old.source
                /\ new.tags = old.tags
                /\ new.supersedes = old.supersedes
                /\ proc[p].u_content = NoneArg
                   => new.content = old.content /\ store'[a].vector = store[a].vector
                /\ proc[p].u_status = NoneArg => new.status = old.status
                /\ proc[p].u_importance = NoneArg => new.importance = old.importance
                /\ proc[p].u_superseded_by = NoId
                   => new.superseded_by = old.superseded_by]_vars
====
